---- MODULE Spec2Model ----
(***************************************************************************)
(* A model of foldeddict.py: FoldedDict and its retention-policy           *)
(* subclasses CanonFolder and DKFoldedDict.                                *)
(*                                                                         *)
(* A map object is a record [cls, preserves, dict]:                        *)
(*   cls        the concrete class of the object (method dispatch)         *)
(*   preserves  self.__preserves, a function canonical key -> preserved key*)
(*   dict       self.__dict, a Python dict preserved key -> value; Python  *)
(*              dicts iterate in insertion order, so it is a sequence of   *)
(*              [k, v] entries with pairwise distinct k                    *)
(* pc is the position of a __setitem__ that is being executed statement by *)
(* statement (idle when none is), and shared tells whether the two maps    *)
(* self and other hold the same table objects.                             *)
(* A key is a record [type, chars]: a Python str is its characters, an     *)
(* int its digits, None has none.  Two keys are the same Python dict key   *)
(* iff the records are equal.  A value is 1..MaxVal; 0 stands for None.    *)
(***************************************************************************)
EXTENDS Integers, Sequences, FiniteSets

VARIABLES self, other, args, last, pc, shared

vars == <<self, other, args, last, pc, shared>>

----------------------------------------------------------------------------
(* Bounds *)

MaxVal == 2
MaxLen == 2
MaxArgs == 3

----------------------------------------------------------------------------
(* Keys and values *)

Str(chars) == [type |-> "str", chars |-> chars]

Int1 == [type |-> "int", chars |-> <<"1">>]

None == [type |-> "NoneType", chars |-> <<>>]

NoKey == [type |-> "", chars |-> <<>>]

StrKeys == { Str(<<"a">>), Str(<<"A">>),
             Str(<<"a", "b">>), Str(<<"a", "B">>), Str(<<"A", "B">>) }

Keys == StrKeys \cup {Int1}

Vals == 1..MaxVal

Classes == {"FoldedDict", "CanonFolder", "DKFoldedDict"}

\* str.lower() on one character
LowerChar(ch) ==
    CASE ch = "A" -> "a"
      [] ch = "B" -> "b"
      [] OTHER -> ch

\* str.lower()
Lower(chars) == [i \in DOMAIN chars |-> LowerChar(chars[i])]

\* A tuple of ints, by its digits, and a tuple of one-character strings
TupleInt(chars) == [type |-> "tuple_int", chars |-> chars]

TupleStr(chars) == [type |-> "tuple_str", chars |-> chars]

\* ''.join(key.split()): the string without its whitespace
StripWs(chars) == SelectSeq(chars, LAMBDA ch : ch # " ")

\* The order of sorted(): code points of characters, values of digits
CharOrd(ch) ==
    CASE ch = " " -> 32
      [] ch = "1" -> 49
      [] ch = "2" -> 50
      [] ch = "A" -> 65
      [] ch = "B" -> 66
      [] ch = "a" -> 97
      [] ch = "b" -> 98

\* sorted(key)
Insert(ch, sorted) ==
    LET n == Cardinality({ j \in DOMAIN sorted :
                              CharOrd(sorted[j]) <= CharOrd(ch) })
    IN  SubSeq(sorted, 1, n) \o <<ch>> \o SubSeq(sorted, n + 1, Len(sorted))

RECURSIVE SortedSeq(_)
SortedSeq(chars) ==
    IF chars = <<>> THEN <<>>
    ELSE Insert(chars[Len(chars)], SortedSeq(SubSeq(chars, 1, Len(chars) - 1)))

\* The exception canonicalkey raises, "" when it returns.
\* StrippedWhitespaceDict.canonicalkey catches TypeError, and key.split of
\* a key that is not a string raises AttributeError
canonicalkey_raises(cls, key) ==
    IF cls = "StrippedWhitespaceDict" /\ key.type # "str"
    THEN "AttributeError" ELSE ""

\* canonicalkey, by the class of self.
\* FoldedDict.canonicalkey: key.lower(), or the key itself when it has no
\* lower() (AttributeError: not a string).
\* StrippedWhitespaceDict.canonicalkey: ''.join(key.split()).
\* SortedKeyDict.canonicalkey: tuple(sorted(key)), or the key itself when
\* it cannot be sorted (TypeError: an int, None)
canonicalkey(cls, key) ==
    IF cls = "StrippedWhitespaceDict"
    THEN IF key.type = "str" THEN Str(StripWs(key.chars)) ELSE key
    ELSE IF cls = "SortedKeyDict"
    THEN CASE key.type = "str" -> TupleStr(SortedSeq(key.chars))
           [] key.type \in {"tuple_int", "tuple_str"} ->
                 [key EXCEPT !.chars = SortedSeq(key.chars)]
           [] OTHER -> key
    ELSE IF key.type = "str" THEN Str(Lower(key.chars)) ELSE key

----------------------------------------------------------------------------
(* Python dict primitives *)

\* self.__preserves: an (unordered) function
FnHas(f, c) == c \in DOMAIN f

FnSet(f, c, p) == [x \in (DOMAIN f) \cup {c} |-> IF x = c THEN p ELSE f[x]]

FnDel(f, c) == [x \in (DOMAIN f) \ {c} |-> f[x]]

\* self.__dict: insertion ordered
DictKeys(d) == [i \in DOMAIN d |-> d[i].k]

DictHas(d, k) == \E i \in DOMAIN d : d[i].k = k

DictGet(d, k) == d[CHOOSE i \in DOMAIN d : d[i].k = k].v

\* Mutant of DictSet: an updated key moves to the end
DictSet_movetoend(d, k, v) ==
    Append(SelectSeq(d, LAMBDA e : e.k # k), [k |-> k, v |-> v])

\* d[k] = v: an existing key keeps its position, a new key goes last
DictSet(d, k, v) ==
    IF DictHas(d, k)
    THEN [i \in DOMAIN d |-> IF d[i].k = k THEN [k |-> k, v |-> v] ELSE d[i]]
    ELSE Append(d, [k |-> k, v |-> v])

\* Mutant of DictDel: the last entry takes the place of the deleted one
DictDel_swap(d, k) ==
    IF ~DictHas(d, k) THEN d
    ELSE LET i == CHOOSE j \in DOMAIN d : d[j].k = k IN
         [j \in 1..(Len(d) - 1) |-> IF j = i THEN d[Len(d)] ELSE d[j]]

\* del d[k]
DictDel(d, k) == SelectSeq(d, LAMBDA e : e.k # k)

----------------------------------------------------------------------------
(* The methods *)

NewMap(cls) == [cls |-> cls, preserves |-> <<>>, dict |-> <<>>]

Returned(v) == [exc |-> "", ret |-> v]

KeyError == [exc |-> "KeyError", ret |-> 0]

\* Mutant of getitem: the key is looked up as given, not its canonical form
getitem_nofold(d, key) ==
    IF ~FnHas(d.preserves, key) THEN KeyError
    ELSE IF ~DictHas(d.dict, d.preserves[key]) THEN KeyError
    ELSE Returned(DictGet(d.dict, d.preserves[key]))

\* FoldedDict.__getitem__
getitem(d, key) ==
    LET canon == canonicalkey(d.cls, key) IN
    IF ~FnHas(d.preserves, canon) THEN KeyError
    ELSE IF ~DictHas(d.dict, d.preserves[canon]) THEN KeyError
    ELSE Returned(DictGet(d.dict, d.preserves[canon]))

\* Mapping.__contains__: try self[key] except KeyError
contains(d, key) == getitem(d, key).exc = ""

\* Mutant of FoldedDict_savekey: the incoming key always replaces the
\* preserved key
FoldedDict_savekey_overwrite(d, key) ==
    [d |-> [d EXCEPT !.preserves =
                       FnSet(d.preserves, canonicalkey(d.cls, key), key)],
     key |-> key]

\* Mutant of FoldedDict_savekey: a later key of a populated class is
\* recorded too, as another name of the preserved key
FoldedDict_savekey_alias(d, key) ==
    LET canon == canonicalkey(d.cls, key) IN
    IF FnHas(d.preserves, canon)
    THEN [d |-> [d EXCEPT !.preserves =
                            FnSet(d.preserves, key, d.preserves[canon])],
          key |-> d.preserves[canon]]
    ELSE [d |-> [d EXCEPT !.preserves = FnSet(d.preserves, canon, key)],
          key |-> key]

\* Mutant of FoldedDict_savekey: the canonical table is keyed by the key
\* as given
FoldedDict_savekey_bykey(d, key) ==
    IF FnHas(d.preserves, key)
    THEN [d |-> d, key |-> d.preserves[key]]
    ELSE [d |-> [d EXCEPT !.preserves = FnSet(d.preserves, key, key)],
          key |-> key]

\* FoldedDict._savekey: the new object and the key returned
FoldedDict_savekey(d, key) ==
    LET canon == canonicalkey(d.cls, key) IN
    IF FnHas(d.preserves, canon)
    THEN [d |-> d, key |-> d.preserves[canon]]
    ELSE [d |-> [d EXCEPT !.preserves = FnSet(d.preserves, canon, key)],
          key |-> key]

\* Mutant of delitem: the value table keeps the entry
delitem_keepvalue(d, key) ==
    LET canon == canonicalkey(d.cls, key) IN
    IF ~FnHas(d.preserves, canon)
    THEN [d |-> d, exc |-> "KeyError"]
    ELSE [d |-> [d EXCEPT !.preserves = FnDel(d.preserves, canon)],
          exc |-> ""]

\* Mutant of delitem: the canonical table keeps the entry
delitem_keeppreserved(d, key) ==
    LET canon == canonicalkey(d.cls, key) IN
    IF ~FnHas(d.preserves, canon) \/ ~DictHas(d.dict, d.preserves[canon])
    THEN [d |-> d, exc |-> "KeyError"]
    ELSE [d |-> [d EXCEPT !.dict = DictDel(d.dict, d.preserves[canon])],
          exc |-> ""]

\* Mutant of delitem: the preserved key is found with _savekey, which
\* records the key of a failing delete as the preserved key of its class
delitem_naive(d, key) ==
    LET s == FoldedDict_savekey(d, key) IN
    IF ~DictHas(s.d.dict, s.key)
    THEN [d |-> s.d, exc |-> "KeyError"]
    ELSE [d |-> [s.d EXCEPT
                   !.preserves = FnDel(s.d.preserves,
                                       canonicalkey(d.cls, key)),
                   !.dict = DictDel(s.d.dict, s.key)],
          exc |-> ""]

\* FoldedDict.__delitem__: the new object and the exception raised, if any
delitem(d, key) ==
    LET canon == canonicalkey(d.cls, key) IN
    IF ~FnHas(d.preserves, canon)
    THEN [d |-> d, exc |-> "KeyError"]
    ELSE LET p == d.preserves[canon]
             d1 == [d EXCEPT !.preserves = FnDel(d.preserves, canon)]
         IN  IF ~DictHas(d1.dict, p)
             THEN [d |-> d1, exc |-> "KeyError"]
             ELSE [d |-> [d1 EXCEPT !.dict = DictDel(d1.dict, p)], exc |-> ""]

\* Mutant of CanonFolder_savekey: the key is saved as given
CanonFolder_savekey_literal(d, key) == FoldedDict_savekey(d, key)

\* CanonFolder._savekey
CanonFolder_savekey(d, key) ==
    FoldedDict_savekey(d, canonicalkey(d.cls, key))

\* Mutant of DKFoldedDict_savekey: the old entry is not deleted first
DKFoldedDict_savekey_keep(d, key) == FoldedDict_savekey(d, key)

\* DKFoldedDict._savekey
DKFoldedDict_savekey(d, key) ==
    LET d1 == IF contains(d, key) THEN delitem(d, key).d ELSE d
    IN  FoldedDict_savekey(d1, key)

\* self._savekey(key), dispatched on the class of self
savekey(d, key) ==
    CASE d.cls = "CanonFolder" -> CanonFolder_savekey(d, key)
      [] d.cls = "DKFoldedDict" -> DKFoldedDict_savekey(d, key)
      [] OTHER -> FoldedDict_savekey(d, key)

\* FoldedDict.__setitem__
setitem(d, key, val) ==
    LET s == savekey(d, key) IN
    [s.d EXCEPT !.dict = DictSet(s.d.dict, s.key, val)]

\* FoldedDict.__iter__
iter(d) == DictKeys(d.dict)

\* FoldedDict.__len__
len(d) == Len(d.dict)

\* Mapping.items(): each key iteration yields, with self[key]
items(d) ==
    [i \in DOMAIN iter(d) |->
        [k |-> iter(d)[i], v |-> getitem(d, iter(d)[i]).ret]]

\* {canonicalkey(k): v for k, v in its}: a later item replaces an earlier
\* one with the same canonical key
RECURSIVE CanonDict(_, _, _)
CanonDict(cls, its, n) ==
    IF n = 0 THEN <<>>
    ELSE FnSet(CanonDict(cls, its, n - 1),
               canonicalkey(cls, its[n].k), its[n].v)

\* Mutant of eq: the value tables are compared by their literal keys
eq_literal(d, o) ==
    Returned(IF { <<d.dict[i].k, d.dict[i].v>> : i \in DOMAIN d.dict }
                = { <<o.dict[i].k, o.dict[i].v>> : i \in DOMAIN o.dict }
             THEN 1 ELSE 0)

\* Mutant of eq_dict: the keys of both sides are folded before comparing
eq_dict_folded(d, o) ==
    Returned(IF CanonDict(d.cls, items(d), len(d))
                  = CanonDict(d.cls, o.dict, Len(o.dict))
             THEN 1 ELSE 0)

\* FoldedDict.__eq__ with a plain dict: other.canonicalkey raises
\* AttributeError at the first item of other and line 115 answers
\* self.__dict == other, a dict comparison by literal keys and values.
\* An empty plain dict never reaches other.canonicalkey: line 113 compares
\* the folded items of self with {}, which is true for the same maps
eq_dict(d, o) ==
    IF Len(o.dict) = 0
    THEN Returned(IF CanonDict(d.cls, items(d), len(d)) = <<>> THEN 1 ELSE 0)
    ELSE Returned(IF { <<d.dict[i].k, d.dict[i].v>> : i \in DOMAIN d.dict }
                       = { <<o.dict[i].k, o.dict[i].v>> : i \in DOMAIN o.dict }
                  THEN 1 ELSE 0)

\* FoldedDict.__eq__: True is 1, False is 0; with another FoldedDict a
\* KeyError of items() is neither caught nor turned into a result
eq(d, o) ==
    IF o.cls = "dict" THEN eq_dict(d, o)
    ELSE
    IF \/ \E i \in DOMAIN iter(d) : getitem(d, iter(d)[i]).exc # ""
       \/ \E i \in DOMAIN iter(o) : getitem(o, iter(o)[i]).exc # ""
    THEN KeyError
    ELSE Returned(IF CanonDict(d.cls, items(d), len(d))
                       = CanonDict(o.cls, items(o), len(o))
                  THEN 1 ELSE 0)

\* dict(pairs): a repeated key keeps its first position and takes the
\* later value
RECURSIVE PyDict(_, _)
PyDict(pairs, n) ==
    IF n = 0 THEN <<>>
    ELSE DictSet(PyDict(pairs, n - 1), pairs[n].k, pairs[n].v)

\* for k, v in its: self[k] = v
RECURSIVE SetAll(_, _, _)
SetAll(d, its, n) ==
    IF n = 0 THEN d
    ELSE setitem(SetAll(d, its, n - 1), its[n].k, its[n].v)

\* FoldedDict.__init__(pairs)
init(cls, pairs) ==
    LET tmp == PyDict(pairs, Len(pairs)) IN
    SetAll(NewMap(cls), tmp, Len(tmp))

\* Mutant of copy: the new object holds the tables of the original
copy_sametables(d) == [map |-> d, shared |-> TRUE]

\* FoldedDict.copy: self.__class__(self).  dict(self) reads keys() and
\* self[key]; __init__ makes two new tables (lines 76-77) and sets each item
copy(d) == [map |-> init(d.cls, items(d)), shared |-> FALSE]

----------------------------------------------------------------------------
(* The calls *)

\* The last call: its arguments, whether the class of its key had a
\* preserved key when it was made, and its outcome
Call(op, key, val, had, out) ==
    [op |-> op, key |-> key, val |-> val, had |-> had,
     exc |-> out.exc, ret |-> out.ret]

\* No __setitem__ is in progress
Idle ==
    [at |-> "idle", key |-> NoKey, skey |-> NoKey, val |-> 0, p |-> NoKey,
     before |-> NewMap("FoldedDict")]

\* self.__preserves[self.canonicalkey(key)] exists
Has(d, key) == FnHas(d.preserves, canonicalkey(d.cls, key))

Init ==
    /\ self \in {NewMap(cls) : cls \in Classes}
    /\ other = NewMap("FoldedDict")
    /\ args = <<>>
    /\ last = Call("__init__", NoKey, 0, FALSE, Returned(0))
    /\ pc = Idle
    /\ shared = FALSE

\* x = self[key]
Get(key) ==
    /\ last' = Call("__getitem__", key, 0, Has(self, key), getitem(self, key))
    /\ UNCHANGED <<self, other, args, pc, shared>>

\* self[key] = val
Set(key, val) ==
    /\ len(self) < MaxLen \/ contains(self, key)
    /\ self' = setitem(self, key, val)
    /\ last' = Call("__setitem__", key, val, Has(self, key), Returned(0))
    /\ UNCHANGED <<other, args, pc, shared>>

\* del self[key]
Del(key) ==
    /\ self' = delitem(self, key).d
    /\ last' = Call("__delitem__", key, 0, Has(self, key),
                    [exc |-> delitem(self, key).exc, ret |-> 0])
    /\ UNCHANGED <<other, args, pc, shared>>

Next ==
    \/ \E key \in Keys : Get(key)
    \/ \E key \in Keys, val \in Vals : Set(key, val)
    \/ \E key \in Keys : Del(key)

Spec == Init /\ [][Next]_vars

----------------------------------------------------------------------------
(* Two maps and their comparison *)

EqKeys == { Str(<<"a">>), Str(<<"A">>), Int1 }

InitEq ==
    /\ self \in {NewMap(cls) : cls \in Classes}
    /\ other \in {NewMap(cls) : cls \in Classes}
    /\ args = <<>>
    /\ last = Call("__init__", NoKey, 0, FALSE, Returned(0))
    /\ pc = Idle
    /\ shared = FALSE

\* The outcome of a call on one of the two maps; the comparison reads the
\* maps, not the arguments of the calls that built them
Outcome(op, out) == Call(op, NoKey, 0, FALSE, out)

\* self[key] = val
SetSelf(key, val) ==
    /\ len(self) < MaxLen \/ contains(self, key)
    /\ self' = setitem(self, key, val)
    /\ last' = Outcome("__setitem__", Returned(0))
    /\ UNCHANGED <<other, args, pc, shared>>

\* del self[key]
DelSelf(key) ==
    /\ self' = delitem(self, key).d
    /\ last' = Outcome("__delitem__",
                       [exc |-> delitem(self, key).exc, ret |-> 0])
    /\ UNCHANGED <<other, args, pc, shared>>

\* other[key] = val
SetOther(key, val) ==
    /\ len(other) < MaxLen \/ contains(other, key)
    /\ other' = setitem(other, key, val)
    /\ last' = Outcome("__setitem__", Returned(0))
    /\ UNCHANGED <<self, args, pc, shared>>

\* del other[key]
DelOther(key) ==
    /\ other' = delitem(other, key).d
    /\ last' = Outcome("__delitem__",
                       [exc |-> delitem(other, key).exc, ret |-> 0])
    /\ UNCHANGED <<self, args, pc, shared>>

\* self == other
Eq ==
    /\ last' = Outcome("__eq__", eq(self, other))
    /\ UNCHANGED <<self, other, args, pc, shared>>

NextEq ==
    \/ \E key \in EqKeys, val \in Vals : SetSelf(key, val)
    \/ \E key \in EqKeys : DelSelf(key)
    \/ \E key \in EqKeys, val \in Vals : SetOther(key, val)
    \/ \E key \in EqKeys : DelOther(key)
    \/ Eq

SpecEq == InitEq /\ [][NextEq]_vars

----------------------------------------------------------------------------
(* Construction from a sequence of pairs *)

ArgKeys == { Str(<<"a">>), Str(<<"A">>), Int1 }

Pairs == [k : ArgKeys, v : Vals]

PairSeqs == UNION { [1..n -> Pairs] : n \in 0..MaxArgs }

\* the constructor is about to be called with args
InitNew ==
    /\ self \in {NewMap(cls) : cls \in Classes}
    /\ other = NewMap("FoldedDict")
    /\ args \in PairSeqs
    /\ last = Call("__new__", NoKey, 0, FALSE, Returned(0))
    /\ pc = Idle
    /\ shared = FALSE

\* self = cls(args)
Construct ==
    /\ last.op = "__new__"
    /\ self' = init(self.cls, args)
    /\ last' = Call("__init__", NoKey, 0, FALSE, Returned(0))
    /\ UNCHANGED <<other, args, pc, shared>>

NextNew ==
    \/ Construct
    \/ \E key \in ArgKeys : last.op # "__new__" /\ Get(key)

SpecNew == InitNew /\ [][NextNew]_vars

----------------------------------------------------------------------------
(* __setitem__ statement by statement, with a reader in between.  The class
   has no lock: another thread, or code the call re-enters (a key's
   __hash__ or __eq__, an overridden canonicalkey), can call __getitem__
   between any two statements of a __setitem__. *)

StepKeys == { Str(<<"a">>), Str(<<"A">>), Int1 }

\* self[key] = val is entered: line 93 calls self._savekey(key); the
\* CanonFolder override (line 142) hands canonicalkey(key) on to
\* FoldedDict._savekey, the DKFoldedDict override (line 148) starts with
\* its test
Begin(key, val) ==
    /\ pc.at = "idle"
    /\ len(self) < MaxLen \/ contains(self, key)
    /\ pc' = [at |-> IF self.cls = "DKFoldedDict" THEN "148" ELSE "127",
              key |-> key,
              skey |-> IF self.cls = "CanonFolder"
                       THEN canonicalkey(self.cls, key) ELSE key,
              val |-> val, p |-> NoKey, before |-> self]
    /\ last' = Call("__setitem__", key, val, Has(self, key), Returned(0))
    /\ UNCHANGED <<self, other, args, shared>>

\* line 148: if key in self
Test148 ==
    /\ pc.at = "148"
    /\ pc' = [pc EXCEPT !.at = IF contains(self, pc.key) THEN "97" ELSE "127"]
    /\ UNCHANGED <<self, other, args, last, shared>>

\* lines 96-98 of __delitem__: p = self.__preserves[canon];
\* del self.__preserves[canon]
Del98 ==
    /\ pc.at = "97"
    /\ Has(self, pc.key)
    /\ pc' = [pc EXCEPT !.at = "99",
                        !.p = self.preserves[canonicalkey(self.cls, pc.key)]]
    /\ self' = [self EXCEPT !.preserves =
                  FnDel(self.preserves, canonicalkey(self.cls, pc.key))]
    /\ UNCHANGED <<other, args, last, shared>>

\* line 99: del self.__dict[p]
Del99 ==
    /\ pc.at = "99"
    /\ self' = [self EXCEPT !.dict = DictDel(self.dict, pc.p)]
    /\ pc' = [pc EXCEPT !.at = "127"]
    /\ UNCHANGED <<other, args, last, shared>>

\* lines 127-132: FoldedDict._savekey
Save127 ==
    /\ pc.at = "127"
    /\ self' = FoldedDict_savekey(self, pc.skey).d
    /\ pc' = [pc EXCEPT !.at = "93", !.p = FoldedDict_savekey(self, pc.skey).key]
    /\ UNCHANGED <<other, args, last, shared>>

\* line 93: self.__dict[...] = val
Store93 ==
    /\ pc.at = "93"
    /\ self' = [self EXCEPT !.dict = DictSet(self.dict, pc.p, pc.val)]
    /\ pc' = Idle
    /\ last' = Call("__setitem__", pc.key, pc.val, Has(pc.before, pc.key),
                    Returned(0))
    /\ UNCHANGED <<other, args, shared>>

\* x = self[key], called while the __setitem__ is between two statements
Observe(key) ==
    /\ pc.at # "idle"
    /\ last' = Call("__getitem__", key, 0, Has(self, key), getitem(self, key))
    /\ UNCHANGED <<self, other, args, pc, shared>>

NextSteps ==
    \/ \E key \in StepKeys, val \in Vals : Begin(key, val)
    \/ Test148
    \/ Del98
    \/ Del99
    \/ Save127
    \/ Store93
    \/ \E key \in StepKeys : Observe(key)
    \/ \E key \in StepKeys : pc.at = "idle" /\ Del(key)

SpecSteps == Init /\ [][NextSteps]_vars

----------------------------------------------------------------------------
(* A map and its copy.  When two objects hold the same tables a write
   through one is a write to the other. *)

CopyKeys == { Str(<<"a">>), Str(<<"A">>), Int1 }

\* The peer of a map that has just become d
Peer(d, peer) ==
    IF shared THEN [peer EXCEPT !.preserves = d.preserves, !.dict = d.dict]
    ELSE peer

\* other = self.copy()
Copy ==
    /\ other' = copy(self).map
    /\ shared' = copy(self).shared
    /\ last' = Outcome("copy", Returned(0))
    /\ UNCHANGED <<self, args, pc>>

\* self[key] = val
SetOriginal(key, val) ==
    /\ len(self) < MaxLen \/ contains(self, key)
    /\ self' = setitem(self, key, val)
    /\ other' = Peer(self', other)
    /\ last' = Outcome("__setitem__", Returned(0))
    /\ UNCHANGED <<args, pc, shared>>

\* del self[key]
DelOriginal(key) ==
    /\ self' = delitem(self, key).d
    /\ other' = Peer(self', other)
    /\ last' = Outcome("__delitem__",
                       [exc |-> delitem(self, key).exc, ret |-> 0])
    /\ UNCHANGED <<args, pc, shared>>

\* other[key] = val
SetCopy(key, val) ==
    /\ len(other) < MaxLen \/ contains(other, key)
    /\ other' = setitem(other, key, val)
    /\ self' = Peer(other', self)
    /\ last' = Outcome("other.__setitem__", Returned(0))
    /\ UNCHANGED <<args, pc, shared>>

\* del other[key]
DelCopy(key) ==
    /\ other' = delitem(other, key).d
    /\ self' = Peer(other', self)
    /\ last' = Outcome("other.__delitem__",
                       [exc |-> delitem(other, key).exc, ret |-> 0])
    /\ UNCHANGED <<args, pc, shared>>

NextCopy ==
    \/ Copy
    \/ \E key \in CopyKeys, val \in Vals : SetOriginal(key, val)
    \/ \E key \in CopyKeys : DelOriginal(key)
    \/ \E key \in CopyKeys, val \in Vals : SetCopy(key, val)
    \/ \E key \in CopyKeys : DelCopy(key)

SpecCopy == Init /\ [][NextCopy]_vars

----------------------------------------------------------------------------
(* The normalization variants.  Each handler calls canonicalkey(key) before
   it reads or writes a table (line 90; line 96; line 127, reached from
   line 93), so an exception of canonicalkey ends the call with both
   tables as they were. *)

NormClasses == {"FoldedDict", "StrippedWhitespaceDict", "SortedKeyDict"}

NormKeys == { Str(<<"a", "b">>), Str(<<"a", " ", "b">>), Str(<<"b", "a">>),
              Int1, None, TupleInt(<<"1", "2">>), TupleInt(<<"2", "1">>) }

InitNorm ==
    /\ self \in {NewMap(cls) : cls \in NormClasses}
    /\ other = NewMap("FoldedDict")
    /\ args = <<>>
    /\ last = Call("__init__", NoKey, 0, FALSE, Returned(0))
    /\ pc = Idle
    /\ shared = FALSE

\* a call whose canonicalkey(key) raises
Raise(op, key, val) ==
    /\ canonicalkey_raises(self.cls, key) # ""
    /\ last' = Call(op, key, val, FALSE,
                    [exc |-> canonicalkey_raises(self.cls, key), ret |-> 0])
    /\ UNCHANGED <<self, other, args, pc, shared>>

NextNorm ==
    \/ \E key \in NormKeys :
          canonicalkey_raises(self.cls, key) = "" /\ Get(key)
    \/ \E key \in NormKeys, val \in Vals :
          canonicalkey_raises(self.cls, key) = "" /\ Set(key, val)
    \/ \E key \in NormKeys :
          canonicalkey_raises(self.cls, key) = "" /\ Del(key)
    \/ \E key \in NormKeys : Raise("__getitem__", key, 0)
    \/ \E key \in NormKeys, val \in Vals : Raise("__setitem__", key, val)
    \/ \E key \in NormKeys : Raise("__delitem__", key, 0)

SpecNorm == InitNorm /\ [][NextNorm]_vars

----------------------------------------------------------------------------
(* A folding map compared with a plain dict *)

\* other is a dict: its table is the value table, it has no canonical table
InitPlain ==
    /\ self \in {NewMap(cls) : cls \in Classes}
    /\ other = NewMap("dict")
    /\ args = <<>>
    /\ last = Call("__init__", NoKey, 0, FALSE, Returned(0))
    /\ pc = Idle
    /\ shared = FALSE

\* other[key] = val, on the dict
SetPlain(key, val) ==
    /\ Len(other.dict) < MaxLen \/ DictHas(other.dict, key)
    /\ other' = [other EXCEPT !.dict = DictSet(@, key, val)]
    /\ last' = Outcome("other.__setitem__", Returned(0))
    /\ UNCHANGED <<self, args, pc, shared>>

\* del other[key], on the dict: KeyError when the key is not in it
DelPlain(key) ==
    /\ other' = IF DictHas(other.dict, key)
                THEN [other EXCEPT !.dict = DictDel(@, key)] ELSE other
    /\ last' = Outcome("other.__delitem__",
                       IF DictHas(other.dict, key) THEN Returned(0)
                       ELSE KeyError)
    /\ UNCHANGED <<self, args, pc, shared>>

NextPlain ==
    \/ \E key \in EqKeys, val \in Vals : SetSelf(key, val)
    \/ \E key \in EqKeys : DelSelf(key)
    \/ \E key \in EqKeys, val \in Vals : SetPlain(key, val)
    \/ \E key \in EqKeys : DelPlain(key)
    \/ Eq

SpecPlain == InitPlain /\ [][NextPlain]_vars

----------------------------------------------------------------------------
(* Three classes of keys: what a call leaves alone *)

\* One key of each of three classes and a second key of the first
FrameKeys == { Str(<<"a">>), Str(<<"A">>), Str(<<"a", "b">>), Int1 }

\* self[key] = val; three classes bound the size of the map
SetFrame(key, val) ==
    /\ self' = setitem(self, key, val)
    /\ last' = Call("__setitem__", key, val, Has(self, key), Returned(0))
    /\ UNCHANGED <<other, args, pc, shared>>

NextFrame ==
    \/ \E key \in FrameKeys, val \in Vals : SetFrame(key, val)
    \/ \E key \in FrameKeys : Del(key)

SpecFrame == Init /\ [][NextFrame]_vars

----------------------------------------------------------------------------
(* Vocabulary of the properties *)

\* normalize(key) for the object self
Norm(key) == canonicalkey(self.cls, key)

\* The classes for which a get on d succeeds
PopulatedClasses(d) ==
    { canonicalkey(d.cls, k) : k \in { x \in Keys : getitem(d, x).exc = "" } }

\* The keys of the value table, as a set
ValueKeys(d) == { d.dict[i].k : i \in DOMAIN d.dict }

\* The preserved keys the canonical table maps to, as a set
PreservedKeys(d) == { d.preserves[c] : c \in DOMAIN d.preserves }

\* The classes of the keys iteration yields, in iteration order
ClassOrder(d) == [i \in DOMAIN d.dict |-> canonicalkey(d.cls, d.dict[i].k)]

----------------------------------------------------------------------------
(* C1: for every policy variant the map behaves like an ordinary map keyed
   by normalize(key).  A new map is empty; a set(k, v) makes get return v for
   every key of the class of k and changes no other get; a delete succeeds
   exactly when get succeeds, then makes get fail for every key of the
   class and changes no other get; a failing delete and a get change no
   get; a get returns what the state before it holds for the key; and
   length() is the number of classes for which get succeeds. *)
C1_OrdinaryMap ==
    /\ \A k \in Keys : getitem(self, k) = KeyError
    /\ len(self) = 0
    /\ [][ /\ \A k \in Keys :
                LET same == Norm(k) = Norm(last'.key) IN
                /\ last'.op = "__setitem__" =>
                     getitem(self', k) =
                       IF same THEN Returned(last'.val) ELSE getitem(self, k)
                /\ last'.op = "__delitem__" =>
                     /\ (last'.exc = "KeyError") <=>
                           (getitem(self, last'.key) = KeyError)
                     /\ getitem(self', k) =
                          IF same THEN KeyError ELSE getitem(self, k)
                /\ last'.op = "__getitem__" =>
                     /\ getitem(self', k) = getitem(self, k)
                     /\ same => getitem(self, k) =
                                  [exc |-> last'.exc, ret |-> last'.ret]
           /\ len(self') = Cardinality(PopulatedClasses(self'))
         ]_vars

\* set(k1, v1); set(k2, v2) with k1 # k2 equivalent: both read v2, length 1
C1_Witness ==
    /\ last.op = "__setitem__"
    /\ last.had
    /\ FnHas(self.preserves, Norm(last.key))
    /\ self.preserves[Norm(last.key)] # last.key
    /\ self.preserves[Norm(last.key)] # Norm(last.key)
    /\ getitem(self, self.preserves[Norm(last.key)]) = Returned(last.val)
    /\ getitem(self, last.key) = Returned(last.val)
    /\ len(self) = 1

(* C2 (I1): in every state the canonical table and the value table have the
   same number of entries, and the preserved keys the canonical table maps
   to are exactly the keys of the value table. *)
C2_TablesMatch ==
    /\ Cardinality(DOMAIN self.preserves) = Len(self.dict)
    /\ PreservedKeys(self) = ValueKeys(self)

\* a successful delete that left another class behind
C2_Witness ==
    /\ last.op = "__delitem__"
    /\ last.exc = ""
    /\ len(self) = 1

(* C3: a get or delete on a class without a preserved key raises KeyError
   and changes neither table; a set of an equivalent key k2 right after the
   failure stores the preserved key of a fresh class: k2 itself under the
   first-seen and most-recent policies, normalize(k2) under the canonical
   policy. *)
C3_FailureIsNoOp ==
    [][ /\ ( /\ last'.op \in {"__getitem__", "__delitem__"}
             /\ ~FnHas(self.preserves, Norm(last'.key)) )
           => (last'.exc = "KeyError" /\ self' = self)
        /\ last'.exc = "KeyError" => self' = self
        /\ ( /\ last.exc = "KeyError"
             /\ last'.op = "__setitem__"
             /\ Norm(last'.key) = Norm(last.key) )
           => /\ self'.preserves[Norm(last'.key)] =
                   IF self.cls = "CanonFolder" THEN Norm(last'.key)
                                               ELSE last'.key
              /\ self'.preserves[Norm(last'.key)] \in ValueKeys(self')
      ]_vars

\* delete(k) failed on a non-empty map whose class of k is absent
C3_Witness ==
    /\ last.op = "__delitem__"
    /\ last.exc = "KeyError"
    /\ last.key # Norm(last.key)
    /\ len(self) > 0

(* C4: first-seen retention (FoldedDict).  The preserved key of a class is
   the literal key of the set that populated it: a class becomes populated
   only by a set, with the key of that set as its preserved key, and while
   it stays populated no call (a set of an equivalent key, a get) changes
   its preserved key; such a set changes the value only. *)
C4_FirstSeen ==
    [][ self.cls = "FoldedDict" =>
          \A c \in DOMAIN self'.preserves :
             /\ ~FnHas(self.preserves, c) =>
                   /\ last'.op = "__setitem__"
                   /\ Norm(last'.key) = c
                   /\ self'.preserves[c] = last'.key
             /\ FnHas(self.preserves, c) =>
                   /\ self'.preserves[c] = self.preserves[c]
                   /\ (last'.op = "__setitem__" /\ Norm(last'.key) = c) =>
                         /\ iter(self') = iter(self)
                         /\ DictGet(self'.dict, self.preserves[c]) = last'.val
      ]_vars

\* a set with a different spelling has left the first key preserved
C4_Witness ==
    /\ self.cls = "FoldedDict"
    /\ last.op = "__setitem__"
    /\ FnHas(self.preserves, Norm(last.key))
    /\ self.preserves[Norm(last.key)] # last.key
    /\ getitem(self, last.key) = Returned(last.val)

\* The value table without the entry of the class of key
WithoutClass(d, key) ==
    SelectSeq(d.dict, LAMBDA e : canonicalkey(d.cls, e.k)
                                    # canonicalkey(d.cls, key))

(* C5: most-recent retention (DKFoldedDict).  set(k, v) leaves the class of
   k with preserved key k and value v, and both tables and the iteration
   order are those of deleting the entry of the class (if there is one)
   and then inserting k with v; the length is unchanged when the class was
   populated. *)
C5_MostRecent ==
    [][ (self.cls = "DKFoldedDict" /\ last'.op = "__setitem__") =>
          /\ self'.preserves[Norm(last'.key)] = last'.key
          /\ getitem(self', last'.key) = Returned(last'.val)
          /\ self'.preserves =
               FnSet(FnDel(self.preserves, Norm(last'.key)),
                     Norm(last'.key), last'.key)
          /\ self'.dict = Append(WithoutClass(self, last'.key),
                                 [k |-> last'.key, v |-> last'.val])
          /\ FnHas(self.preserves, Norm(last'.key)) => len(self') = len(self)
      ]_vars

\* a most-recent set has replaced a differently spelled preserved key
C5_Witness ==
    /\ self.cls = "DKFoldedDict"
    /\ last.op = "__setitem__"
    /\ last.had
    /\ last.key # Norm(last.key)
    /\ len(self) = 2
    /\ self.dict[2] = [k |-> last.key, v |-> last.val]
    /\ Norm(self.dict[1].k) # self.dict[1].k

(* C6: canonical retention (CanonFolder).  In every state the preserved key
   of every populated class is the canonical key of the class, so the list
   of keys is the list of the populated classes. *)
C6_CanonicalKeys ==
    self.cls = "CanonFolder" =>
       /\ \A c \in DOMAIN self.preserves : self.preserves[c] = c
       /\ iter(self) = ClassOrder(self)

\* a set with a non-canonical spelling is listed by its canonical key
C6_Witness ==
    /\ self.cls = "CanonFolder"
    /\ last.op = "__setitem__"
    /\ last.key # Norm(last.key)
    /\ iter(self) = <<Norm(last.key)>>

\* A sequence of classes without the class c
SeqWithout(order, c) == SelectSeq(order, LAMBDA x : x # c)

\* Iteration yields one key for each populated class
OneKeyPerClass(d) ==
    /\ \A i, j \in DOMAIN d.dict :
          ClassOrder(d)[i] = ClassOrder(d)[j] => i = j
    /\ { ClassOrder(d)[i] : i \in DOMAIN d.dict } = PopulatedClasses(d)

\* What every call but a set on a populated class does to the iteration
\* order: a set on an absent class appends the class, a successful delete
\* removes it, a get and a failing delete change nothing
OrderStep ==
    /\ OneKeyPerClass(self')
    /\ (last'.op = "__setitem__" /\ ~last'.had) =>
          ClassOrder(self') = Append(ClassOrder(self), Norm(last'.key))
    /\ (last'.op = "__delitem__" /\ last'.exc = "") =>
          ClassOrder(self') = SeqWithout(ClassOrder(self), Norm(last'.key))
    /\ (last'.op = "__getitem__" \/ last'.exc = "KeyError") =>
          ClassOrder(self') = ClassOrder(self)

(* C9 as stated: for every policy variant iteration yields one key per
   populated class in the order in which the classes were first populated,
   and a set on a class that is already populated does not change the
   position of the class. *)
C9_OrderAllPolicies ==
    [][ /\ OrderStep
        /\ (last'.op = "__setitem__" /\ last'.had) =>
              ClassOrder(self') = ClassOrder(self)
      ]_vars

(* C9 amended: iteration yields one key per populated class in the order in
   which the classes were populated; a set on a populated class does not
   change the position of the class under the first-seen (FoldedDict) and
   canonical (CanonFolder) policies, and moves the class to the end under
   the most-recent policy (DKFoldedDict), whose set deletes and re-inserts
   the entry. *)
C9_OrderByPolicy ==
    [][ /\ OrderStep
        /\ (last'.op = "__setitem__" /\ last'.had) =>
              ClassOrder(self') =
                 IF self.cls = "DKFoldedDict"
                 THEN Append(SeqWithout(ClassOrder(self), Norm(last'.key)),
                             Norm(last'.key))
                 ELSE ClassOrder(self)
      ]_vars

\* a set on the populated first class of two: it stays first under the
\* first-seen policy
C9_Witness ==
    /\ self.cls = "FoldedDict"
    /\ last.op = "__setitem__"
    /\ last.had
    /\ len(self) = 2
    /\ ClassOrder(self)[1] = Norm(last.key)
    /\ self.dict[1].k # last.key

(* C10: a successful delete(k) removes the canonical-table entry and the
   value-table entry of the class of k: afterwards no table holds a key of
   the class, get fails for every equivalent key, the length is one less,
   and the next set into the class stores the preserved key that the same
   set stores in a new map. *)
C10_DeleteLeavesNothing ==
    [][ /\ (last'.op = "__delitem__" /\ last'.exc = "") =>
              /\ ~FnHas(self'.preserves, Norm(last'.key))
              /\ \A p \in ValueKeys(self') \cup PreservedKeys(self') :
                    Norm(p) # Norm(last'.key)
              /\ \A k \in Keys : Norm(k) = Norm(last'.key) =>
                    getitem(self', k) = KeyError
              /\ len(self') = len(self) - 1
        /\ ( /\ last.op = "__delitem__" /\ last.exc = ""
             /\ last'.op = "__setitem__"
             /\ Norm(last'.key) = Norm(last.key) ) =>
              /\ FnHas(self'.preserves, Norm(last'.key))
              /\ self'.preserves[Norm(last'.key)] =
                   setitem(NewMap(self.cls), last'.key, last'.val)
                      .preserves[Norm(last'.key)]
              /\ self'.dict[Len(self'.dict)].k =
                   self'.preserves[Norm(last'.key)]
      ]_vars

\* a successful delete of a class whose preserved key was not canonical,
\* with another class left in the map
C10_Witness ==
    /\ last.op = "__delitem__"
    /\ last.exc = ""
    /\ last.key # Norm(last.key)
    /\ len(self) = 1
    /\ \A k \in Keys : Norm(k) = Norm(last.key) => getitem(self, k) = KeyError

(* C7 as stated: constructing a map from a sequence of pairs yields the
   state (values, preserved keys, iteration order) of an empty map of the
   same policy after set(key, value) for each pair in order, so that the
   value of a class is that of the last pair whose key folds to it. *)
C7_ConstructionIsSets ==
    last.op \in {"__init__", "__getitem__"} =>
       /\ self = SetAll(NewMap(self.cls), args, Len(args))
       /\ \A i \in DOMAIN args :
             (\A j \in DOMAIN args :
                 j > i => Norm(args[j].k) # Norm(args[i].k))
             => getitem(self, args[i].k) = Returned(args[i].v)

\* The (normalize(key), value) pairs of a map, read off its value table
CanonPairs(d) ==
    { <<canonicalkey(d.cls, d.dict[i].k), d.dict[i].v>> : i \in DOMAIN d.dict }

(* C8: two folding maps compare equal exactly when their sets of
   (normalize(key), value) pairs are the same, whatever keys are preserved
   and whatever the insertion orders; a set that changes the value of a
   class of one of two equal maps makes them unequal. *)
C8_EqualByCanonicalPairs ==
    /\ eq(self, other) =
         Returned(IF CanonPairs(self) = CanonPairs(other) THEN 1 ELSE 0)
    /\ eq(other, self) = eq(self, other)
    /\ last.op = "__eq__" => last.ret = eq(self, other).ret
    /\ eq(self, other) = Returned(1) =>
          \A k \in EqKeys, v \in Vals :
             getitem(self, k) \notin {KeyError, Returned(v)} =>
                /\ eq(setitem(self, k, v), other) = Returned(0)
                /\ eq(other, setitem(self, k, v)) = Returned(0)

\* two maps found equal that preserve different keys in different orders
C8_Witness ==
    /\ last.op = "__eq__"
    /\ last.ret = 1
    /\ len(self) = 2
    /\ ValueKeys(self) # ValueKeys(other)
    /\ ClassOrder(self) # ClassOrder(other)

(* C11 as stated: set(key, value) is atomic with respect to observers: a
   get made between two table writes of a set returns what it returns
   before the set or what it returns after the set, never the outcome of
   an intermediate state (such as the class being absent although it is
   populated before and after the set). *)
C11_SetIsAtomic ==
    (pc.at # "idle" /\ last.op = "__getitem__") =>
       [exc |-> last.exc, ret |-> last.ret] \in
          { getitem(pc.before, last.key),
            getitem(setitem(pc.before, pc.key, pc.val), last.key) }

(* C12: copy() returns a new map of the same class that is equal to the
   original and has the same keys in the same order with the same values,
   and its two tables are not the original's: a later set or delete on the
   copy leaves the original unchanged, and one on the original leaves the
   copy unchanged. *)
C12_CopyIsIndependent ==
    [][ /\ last'.op = "copy" =>
              /\ self' = self
              /\ other'.cls = self.cls
              /\ eq(self, other') = Returned(1)
              /\ eq(other', self) = Returned(1)
              /\ iter(other') = iter(self)
              /\ items(other') = items(self)
              /\ other'.preserves = self.preserves
              /\ ~shared'
        /\ last'.op \in {"__setitem__", "__delitem__"} => other' = other
        /\ last'.op \in {"other.__setitem__", "other.__delitem__"} =>
              self' = self
      ]_vars

\* a copy of a map of two entries has been changed and the original still
\* lists its two keys
C12_Witness ==
    /\ last.op = "other.__delitem__"
    /\ last.exc = ""
    /\ self.cls = "DKFoldedDict"
    /\ other.cls = "DKFoldedDict"
    /\ len(self) = 2
    /\ len(other) = 1
    /\ ValueKeys(self) # { Norm(k) : k \in ValueKeys(self) }

(* C13 as stated: normalization is total for the default rule and for the
   whitespace-stripping and sorted-key variants: a key the rule does not
   handle (an int, None) is passed through unchanged and is an exact-match
   key of its own, and no get, set or delete raises anything but
   KeyError. *)
C13_NormalizationTotal ==
    /\ last.exc \in {"", "KeyError"}
    /\ (last.op = "__setitem__" /\ last.key \in {Int1, None}) =>
          /\ Norm(last.key) = last.key
          /\ getitem(self, last.key) = Returned(last.val)
          /\ self.preserves[last.key] = last.key
          /\ \A k \in NormKeys \ {last.key} : Norm(k) # last.key

\* The (key, value) pairs of a plain dict
PlainPairs(o) == { <<o.dict[i].k, o.dict[i].v>> : i \in DOMAIN o.dict }

\* The (preserved key, value) pairs of a folding map, read from the
\* canonical table and by get
KeptPairs(d) ==
    { <<d.preserves[c], getitem(d, c).ret>> : c \in DOMAIN d.preserves }

\* The (canonical key, value) pairs of a folding map
ClassPairs(d) == { <<c, getitem(d, c).ret>> : c \in DOMAIN d.preserves }

(* C14: comparing a folding map with a plain dict folds nothing: the answer
   is true exactly when the plain dict has the preserved keys of the map,
   each with the same value.  A first-seen map that preserves a key other
   than its canonical key differs from the plain dict of its canonical
   keys; a canonical-retention map equals the plain dict of its canonical
   keys. *)
C14_PlainUsesNoFolding ==
    /\ eq(self, other) =
         Returned(IF PlainPairs(other) = KeptPairs(self) THEN 1 ELSE 0)
    /\ last.op = "__eq__" => last.ret = eq(self, other).ret /\ last.exc = ""
    /\ ( /\ self.cls = "FoldedDict"
         /\ \E c \in DOMAIN self.preserves : self.preserves[c] # c
         /\ PlainPairs(other) = ClassPairs(self) )
          => eq(self, other) = Returned(0)
    /\ (self.cls = "CanonFolder" /\ PlainPairs(other) = ClassPairs(self))
          => eq(self, other) = Returned(1)

\* a first-seen map and a plain dict found equal on a key that is not
\* canonical
C14_Witness ==
    /\ last.op = "__eq__"
    /\ last.ret = 1
    /\ self.cls = "FoldedDict"
    /\ other.cls = "dict"
    /\ len(self) = 2
    /\ Str(<<"A">>) \in ValueKeys(self)

(* C15: invariant I2.  In every reachable state of every policy the
   canonical table is injective: no two distinct canonical keys map to the
   same preserved key. *)
C15_PreservesInjective ==
    \A c1, c2 \in DOMAIN self.preserves :
       self.preserves[c1] = self.preserves[c2] => c1 = c2

\* two populated classes, after a set on a populated class with a key that
\* is not canonical
C15_Witness ==
    /\ last.op = "__setitem__"
    /\ last.had
    /\ last.key # Norm(last.key)
    /\ Cardinality(DOMAIN self.preserves) = 2

\* The entries of a value table in order, without the class c
OtherEntries(d, c) ==
    SelectSeq(d.dict, LAMBDA e : canonicalkey(d.cls, e.k) # c)

(* C16: a set(k, v) or delete(k), under any policy, changes only the class
   normalize(k): every other populated class keeps its preserved key and
   its value, no other class appears or disappears, and the other classes
   keep their order relative to one another in iteration. *)
C16_OnlyOneClassChanges ==
    [][ LET c == canonicalkey(self.cls, last'.key) IN
        last'.op \in {"__setitem__", "__delitem__"} =>
           /\ DOMAIN self'.preserves \ {c} = DOMAIN self.preserves \ {c}
           /\ \A x \in DOMAIN self.preserves \ {c} :
                 /\ self'.preserves[x] = self.preserves[x]
                 /\ getitem(self', x) = getitem(self, x)
           /\ OtherEntries(self', c) = OtherEntries(self, c)
      ]_vars

\* three populated classes, after a set that moved the first class of the
\* order to the end
C16_Witness ==
    /\ self.cls = "DKFoldedDict"
    /\ last.op = "__setitem__"
    /\ last.had
    /\ len(self) = 3
    /\ ClassOrder(self)[3] = Norm(last.key)
    /\ ClassOrder(self)[1] = Int1

(* C17: in every reachable state of every policy each entry c -> p of the
   canonical table has normalize(p) = c; get(p) succeeds for every key p
   that iteration yields and returns the value stored with p, so reading
   the items never fails with KeyError. *)
C17_PreservedKeyInClass ==
    /\ \A c \in DOMAIN self.preserves : Norm(self.preserves[c]) = c
    /\ \A i \in DOMAIN iter(self) :
          getitem(self, iter(self)[i]) = Returned(self.dict[i].v)
    /\ \A i \in DOMAIN items(self) :
          items(self)[i] = [k |-> iter(self)[i], v |-> self.dict[i].v]

\* two populated classes, one of them with a preserved key that is not
\* its canonical key
C17_Witness ==
    /\ last.op = "__setitem__"
    /\ len(self) = 2
    /\ \E c \in DOMAIN self.preserves : self.preserves[c] # c
    /\ Int1 \in DOMAIN self.preserves

====
